---- MODULE Spec2Model ----
(***************************************************************************)
(* Model of the authentication / authorization / audit core of the RSSB   *)
(* sewadar portal backend: the authenticateToken and requireRole           *)
(* middleware, the error handler, the relational store with the            *)
(* constraints of createTables, and the route handlers that mutate         *)
(* sewadars and users.  Every `await db.query` of a handler is one atomic  *)
(* step; requests interleave between their steps.                          *)
(***************************************************************************)
EXTENDS Integers, Sequences, FiniteSets, TLC

VARIABLES
  users,       \* table users: id -> row (exists = FALSE when there is no row)
  sewadars,    \* table sewadars: id -> row
  audit_logs,  \* table audit_logs, in insertion order
  nextSewadar, \* how many sewadar ids uuidv4() has handed out
  nextUser,    \* how many user ids have been handed out
  tokens,      \* bearer tokens the clients hold (issued by /login)
  now,         \* the clock jwt.sign / jwt.verify read
  faults,      \* how many store queries have failed so far
  req,         \* the requests in flight, one per connection slot
  client       \* the browser: localStorage, the AuthProvider's state, its calls

vars == <<users, sewadars, audit_logs, nextSewadar, nextUser, tokens, now, faults, req,
          client>>

----------------------------------------------------------------------------
(* Bounds of the model *)

MaxTime == 2
MaxSewadars == 2
MaxAudit == 3
MaxRaceAudit == 4
MaxFaults == 1

(* Program constants *)

TokenTtl == 2
JWT_SECRET == "secret"

None == "none"
Slots == {"r1", "r2"}
MaxUsers == 5
MaxAccountAudit == 3
MaxClientAudit == 3
Seeded == 3
UserIds == 1..MaxUsers
NoId == 0
Roles == {"ADMIN", "EDITOR", "VIEWER"}
SewadarIds == 1..MaxSewadars
Passwords == {"pw1", "pw2"}
Names == {"n1", "n2"}

----------------------------------------------------------------------------
(* Strings.  A header is a sequence of characters; a character is the      *)
(* space, the dot, a run of ordinary characters (a word), or a base64url   *)
(* segment standing for the JSON it encodes.                               *)

W(s) == [w |-> s]
SP == W(" ")
DOT == W(".")
PaySeg(claims) == [pay |-> claims]
SigSeg(key, claims) == [sig |-> [key |-> key, over |-> claims]]
JwtHeaderText == "eyJhbGciOiJIUzI1NiJ9"
HdrSeg == W(JwtHeaderText)

IsChar(ch, s) == DOMAIN ch = {"w"} /\ ch.w = s

\* String.prototype.split(sep) for a one-character separator
RECURSIVE SplitAcc(_, _, _, _)
SplitAcc(s, sep, cur, acc) ==
  IF s = <<>> THEN Append(acc, cur)
  ELSE IF IsChar(Head(s), sep)
       THEN SplitAcc(Tail(s), sep, <<>>, Append(acc, cur))
       ELSE SplitAcc(Tail(s), sep, Append(cur, Head(s)), acc)

Split(s, sep) == SplitAcc(s, sep, <<>>, <<>>)

----------------------------------------------------------------------------
(* Token service: jsonwebtoken's sign and verify as the routes call them.  *)

Claims(userId, email, role, exp) ==
  [userId |-> userId, email |-> email, role |-> role, exp |-> exp]

NoClaims == Claims(None, None, None, 0)

\* sign with the role left out of the payload
JwtSign_NoRole(userId, email, role, secret, t) ==
  LET c == Claims(userId, email, None, t + TokenTtl)
  IN  <<HdrSeg, DOT, PaySeg(c), DOT, SigSeg(secret, c)>>

\* jwt.sign(payload, secret, {expiresIn}) at time t
JwtSign(userId, email, role, secret, t) ==
  LET c == Claims(userId, email, role, t + TokenTtl)
  IN  <<HdrSeg, DOT, PaySeg(c), DOT, SigSeg(secret, c)>>

\* verify handing back the time the token has left in place of its expiry
JwtVerify_Remaining(token, secret, t) ==
  LET parts == Split(token, ".")
      bad(name, msg) == [err |-> name, msg |-> msg, claims |-> NoClaims]
  IN  IF Len(parts) # 3 THEN bad("JsonWebTokenError", "jwt malformed")
      ELSE IF ~(Len(parts[1]) = 1 /\ IsChar(parts[1][1], JwtHeaderText))
        THEN bad("JsonWebTokenError", "invalid token")
      ELSE IF ~(Len(parts[2]) = 1 /\ DOMAIN parts[2][1] = {"pay"})
        THEN bad("JsonWebTokenError", "invalid token")
      ELSE IF ~(Len(parts[3]) = 1 /\ DOMAIN parts[3][1] = {"sig"})
        THEN bad("JsonWebTokenError", "invalid signature")
      ELSE IF ~(parts[3][1].sig.key = secret
                /\ parts[3][1].sig.over = parts[2][1].pay)
        THEN bad("JsonWebTokenError", "invalid signature")
      ELSE IF t >= parts[2][1].pay.exp THEN bad("TokenExpiredError", "jwt expired")
      ELSE [err |-> None, msg |-> None,
            claims |-> [parts[2][1].pay EXCEPT !.exp = @ - t]]

\* jwt.verify(token, secret, cb) at time t: the error name and the payload
JwtVerify(token, secret, t) ==
  LET parts == Split(token, ".")
      bad(name, msg) == [err |-> name, msg |-> msg, claims |-> NoClaims]
  IN  IF Len(parts) # 3 THEN bad("JsonWebTokenError", "jwt malformed")
      ELSE IF ~(Len(parts[1]) = 1 /\ IsChar(parts[1][1], JwtHeaderText))
        THEN bad("JsonWebTokenError", "invalid token")
      ELSE IF ~(Len(parts[2]) = 1 /\ DOMAIN parts[2][1] = {"pay"})
        THEN bad("JsonWebTokenError", "invalid token")
      ELSE IF ~(Len(parts[3]) = 1 /\ DOMAIN parts[3][1] = {"sig"})
        THEN bad("JsonWebTokenError", "invalid signature")
      ELSE IF ~(parts[3][1].sig.key = secret
                /\ parts[3][1].sig.over = parts[2][1].pay)
        THEN bad("JsonWebTokenError", "invalid signature")
      ELSE IF t >= parts[2][1].pay.exp THEN bad("TokenExpiredError", "jwt expired")
      ELSE [err |-> None, msg |-> None, claims |-> parts[2][1].pay]

----------------------------------------------------------------------------
(* The store: the tables of createTables with their constraints.           *)

NoUserRow ==
  [exists |-> FALSE, email |-> None, password |-> None, name |-> None,
   role |-> None, isActive |-> FALSE]

UserRow(email, password, name, role) ==
  [exists |-> TRUE, email |-> email, password |-> password, name |-> name,
   role |-> role, isActive |-> TRUE]

NoSewadarRow == [exists |-> FALSE, name |-> None, createdBy |-> NoId]

\* bcrypt.hash / bcrypt.compare
Hash(pw) == <<"bcrypt", pw>>
Compare(pw, hash) == hash = Hash(pw)

\* seedInitialData: the three seeded accounts
SeedUsers ==
  [u \in UserIds |->
     IF u = 1 THEN UserRow("admin@rssb.org", Hash("pw1"), "n1", "ADMIN")
     ELSE IF u = 2 THEN UserRow("editor@rssb.org", Hash("pw1"), "n1", "EDITOR")
     ELSE IF u = 3 THEN UserRow("viewer@rssb.org", Hash("pw1"), "n1", "VIEWER")
     ELSE NoUserRow]

\* the store with foreign keys left unenforced
ForeignKeysOn_Off == FALSE

\* db.pragma('foreign_keys = ON')
ForeignKeysOn == TRUE

\* the users table without the constraint on email
EmailTaken_NoConstraint(tbl, email) == FALSE

\* email TEXT UNIQUE NOT NULL: an insert with an email a row has is refused
EmailTaken(tbl, email) ==
  \E u \in UserIds : tbl[u].exists /\ tbl[u].email = email

\* FOREIGN KEY (createdBy) REFERENCES users(id), FOREIGN KEY (userId)
\* REFERENCES users(id): a child row needs its parent
ParentExists(tbl, id) == ~ForeignKeysOn \/ (id \in UserIds /\ tbl[id].exists)

\* ... and a parent with child rows cannot be deleted
HasChildren(sw, al, id) ==
  ForeignKeysOn /\
    ( (\E s \in SewadarIds : sw[s].exists /\ sw[s].createdBy = id)
      \/ (\E i \in 1..Len(al) : al[i].userId = id) )

AuditRow(action, userId, entity, entityId, slot) ==
  [action |-> action, userId |-> userId, entity |-> entity,
   entityId |-> entityId, slot |-> slot]

----------------------------------------------------------------------------
(* Middleware *)

NoIdentity == [userId |-> NoId, email |-> None, role |-> None, name |-> None]

Absent == [present |-> FALSE, text |-> <<>>]
Header(text) == [present |-> TRUE, text |-> text]

LogLine(level, msg, data) == [level |-> level, msg |-> msg, data |-> data]

\* what the logger writes for one call: the message and then the argument
LoggerWrites(line) == <<W(line.msg)>> \o line.data

GateResult(status, message, user, verified, log) ==
  [status |-> status, message |-> message, user |-> user,
   verified |-> verified, log |-> log]

\* the test passing an empty header value on
HeaderMissing_OnlyUndefined(hdr) == ~hdr.present

\* !authHeader: undefined, or the empty string
HeaderMissing(hdr) == ~hdr.present \/ hdr.text = <<>>

\* the check of the scheme alone, without the count of parts
HeaderFormatOk_Scheme(parts) ==
  Len(parts) >= 2 /\ Len(parts[1]) = 1 /\ IsChar(parts[1][1], "Bearer")

\* parts.length !== 2 || parts[0] !== 'Bearer', negated
HeaderFormatOk(parts) ==
  Len(parts) = 2 /\ Len(parts[1]) = 1 /\ IsChar(parts[1][1], "Bearer")

\* the check of the token's parts with a lower limit only
TokenFormatOk_AtLeast(token) == Len(Split(token, ".")) >= 3

\* token.split('.').length !== 3, negated
TokenFormatOk(token) == Len(Split(token, ".")) = 3

\* the lookup without its "isActive" condition
FindActiveUser_AnyStatus(tbl, id) ==
  IF id \in UserIds /\ tbl[id].exists THEN tbl[id] ELSE NoUserRow

\* SELECT * FROM users WHERE id = $1 AND "isActive" = $2, rows[0]
FindActiveUser(tbl, id) ==
  IF id \in UserIds /\ tbl[id].exists /\ tbl[id].isActive THEN tbl[id] ELSE NoUserRow

\* the identity with the role read from the users row
GateIdentity_StoredRole(claims, dbUser) ==
  [userId |-> claims.userId, email |-> claims.email,
   role |-> dbUser.role, name |-> dbUser.name]

\* req.user = {userId, email, role, firstName, lastName}
GateIdentity(claims, dbUser) ==
  [userId |-> claims.userId, email |-> claims.email,
   role |-> claims.role, name |-> dbUser.name]

\* authenticateToken(req, res, next): status 0 stands for the call of next()
AuthenticateToken(hdr, tbl, t) ==
  LET l0 == {LogLine("info", "Auth header received:", hdr.text)}
      parts == Split(hdr.text, " ")
      token == parts[2]
      l1 == l0 \cup {LogLine("info", "Extracted token:",
                             IF token = <<>> THEN <<>> ELSE <<Head(token)>>)}
      v == JwtVerify(token, JWT_SECRET, t)
      dbUser == FindActiveUser(tbl, v.claims.userId)
  IN  IF HeaderMissing(hdr)
        THEN GateResult(401, "Access token required", NoIdentity, FALSE,
               l0 \cup {LogLine("warn", "No authorization header provided", <<>>)})
      ELSE IF ~HeaderFormatOk(parts)
        THEN GateResult(401,
               "Invalid authorization header format. Use: Bearer <token>",
               NoIdentity, FALSE,
               l0 \cup {LogLine("warn", "Invalid authorization header format:", hdr.text)})
      ELSE IF token = <<>>
        THEN GateResult(401, "Access token required", NoIdentity, FALSE,
               l1 \cup {LogLine("warn", "No token found in authorization header", <<>>)})
      ELSE IF ~TokenFormatOk(token)
        THEN GateResult(401, "Invalid token format", NoIdentity, FALSE,
               l1 \cup {LogLine("warn", "Token format invalid:", token)})
      ELSE IF v.err # None
        THEN GateResult(403, "Invalid or expired token", NoIdentity, TRUE,
               l1 \cup {LogLine("warn", "Token verification failed", <<W(v.msg)>>),
                        LogLine("warn", "Token that failed:", token),
                        LogLine("warn", "JWT_SECRET being used:", <<W(JWT_SECRET)>>)})
      ELSE IF ~dbUser.exists
        THEN GateResult(403, "User account not found or deactivated",
               NoIdentity, TRUE,
               l1 \cup {LogLine("warn", "User not found or inactive:", <<>>)})
      ELSE GateResult(0, None, GateIdentity(v.claims, dbUser), TRUE, l1)

\* requireRole checking only that an identity is attached
RequireRole_AnyRole(roles, user) ==
  IF user.userId = NoId
    THEN [status |-> 401, message |-> "Authentication required"]
  ELSE [status |-> 0, message |-> None]

\* requireRole(roles)(req, res, next): status 0 stands for the call of next()
RequireRole(roles, user) ==
  IF user.userId = NoId
    THEN [status |-> 401, message |-> "Authentication required"]
  ELSE IF user.role \notin roles
    THEN [status |-> 403, message |-> "Insufficient permissions"]
  ELSE [status |-> 0, message |-> None]

\* requireEditor letting every role in
requireEditor_Everyone == {"ADMIN", "EDITOR", "VIEWER"}

requireEditor == {"ADMIN", "EDITOR"}
requireAdmin == {"ADMIN"}

\* schemas[schemaName]: the keys a schema knows, those it requires, .min(n)
Schema(name) ==
  CASE name = "sewadarCreate" ->
         [known |-> {"firstName"}, required |-> {"firstName"}, min |-> 0]
    [] name = "sewadarUpdate" ->
         [known |-> {"firstName"}, required |-> {}, min |-> 1]
    [] name = "userUpdate" ->
         [known |-> {"firstName", "role", "isActive"}, required |-> {}, min |-> 1]
    [] name = "userLogin" ->
         [known |-> {"email", "password"}, required |-> {"email", "password"},
          min |-> 0]
    [] name = "userRegistration" ->
         [known |-> {"email", "password", "firstName", "role"},
          required |-> {"email", "password", "firstName"}, min |-> 0]

\* the names schemas has an entry for
SchemaNames ==
  {"userRegistration", "userLogin", "userUpdate", "sewadarCreate", "sewadarUpdate"}

\* validate(schemaName): stripUnknown removes the unknown keys, then the
\* schema's rules decide
\* status 0: next() is called with req.body replaced by value
Validate(name, body) ==
  IF name \notin SchemaNames
    THEN [status |-> 500, message |-> "Invalid validation schema", value |-> body]
  ELSE LET kept == body.keys \cap Schema(name).known
       IN  IF ~(Schema(name).required \subseteq kept)
              \/ Cardinality(kept) < Schema(name).min
             THEN [status |-> 400, message |-> "Validation failed", value |-> body]
           ELSE [status |-> 0, message |-> None,
                 value |-> [body EXCEPT !.keys = kept]]

AppError(message, statusCode) ==
  [name |-> "AppError", code |-> None, statusCode |-> statusCode,
   message |-> message]

\* what db.query rejects with
DbError(code) ==
  [name |-> "Error", code |-> code, statusCode |-> 0, message |-> "query failed"]

\* errorHandler(err, req, res, next): the response it sends
ErrorHandler(err) ==
  IF err.name = "ValidationError"
    THEN [status |-> 400, message |-> "Validation error"]
  ELSE IF err.name = "JsonWebTokenError"
    THEN [status |-> 401, message |-> "Invalid token"]
  ELSE IF err.name = "TokenExpiredError"
    THEN [status |-> 401, message |-> "Token expired"]
  ELSE IF err.code = "SQLITE_CONSTRAINT_UNIQUE"
    THEN [status |-> 409, message |-> "Resource already exists"]
  ELSE IF err.code = "SQLITE_CONSTRAINT_FOREIGNKEY"
    THEN [status |-> 400, message |-> "Invalid reference to related resource"]
  ELSE IF err.statusCode # 0
    THEN [status |-> err.statusCode, message |-> err.message]
  ELSE [status |-> 500, message |-> "Internal server error"]

----------------------------------------------------------------------------
(* Routes: the middleware each route mounts before its handler.  roles =   *)
(* Roles means the route mounts no requireRole.                            *)

\* a chain mounted without authenticateToken
Chain_NoGate(auth, roles, schema) == [auth |-> FALSE, roles |-> roles, schema |-> schema]

Chain(auth, roles, schema) == [auth |-> auth, roles |-> roles, schema |-> schema]

RouteTable(route) ==
  CASE route = "POST /auth/login" -> Chain(FALSE, Roles, "userLogin")
    [] route = "POST /auth/register" -> Chain(TRUE, Roles, "userRegistration")
    [] route = "GET /auth/me" -> Chain(TRUE, Roles, None)
    [] route = "PUT /auth/profile" -> Chain(TRUE, Roles, "userProfileUpdate")
    [] route = "POST /auth/change-password" -> Chain(TRUE, Roles, "passwordChange")
    [] route = "POST /auth/logout" -> Chain(TRUE, Roles, None)
    [] route = "GET /sewadars" -> Chain(TRUE, Roles, None)
    [] route = "GET /sewadars/:id" -> Chain(TRUE, Roles, None)
    [] route = "GET /sewadars/stats/summary" -> Chain(TRUE, Roles, None)
    [] route = "GET /sewadars/export" -> Chain(TRUE, requireEditor, None)
    [] route = "POST /sewadars" -> Chain(TRUE, requireEditor, "sewadarCreate")
    [] route = "PUT /sewadars/:id" -> Chain(TRUE, requireEditor, "sewadarUpdate")
    [] route = "DELETE /sewadars/:id" -> Chain(TRUE, requireEditor, None)
    [] route = "GET /users" -> Chain(TRUE, requireAdmin, None)
    [] route = "GET /users/:id" -> Chain(TRUE, requireAdmin, None)
    [] route = "POST /users/:id/reset-password" -> Chain(TRUE, requireAdmin, None)
    [] route = "PUT /users/:id" -> Chain(TRUE, requireAdmin, "userUpdate")
    [] route = "DELETE /users/:id" -> Chain(TRUE, requireAdmin, None)
    [] route = "GET /audit-logs" -> Chain(TRUE, requireAdmin, None)
    [] route = "GET /audit-logs/stats" -> Chain(TRUE, requireAdmin, None)

----------------------------------------------------------------------------
(* Requests *)

NoBody ==
  [keys |-> {}, firstName |-> None, role |-> None, isActive |-> FALSE,
   email |-> None, password |-> None, newPassword |-> None, createdBy |-> NoId]

IdleReq ==
  [pc |-> "idle", route |-> None, hdr |-> Absent, id |-> NoId, body |-> NoBody,
   user |-> NoIdentity, status |-> 0, message |-> None, verified |-> FALSE,
   log |-> {}, steps |-> <<>>, newId |-> NoId, found |-> NoId, token |-> <<>>,
   raw |-> NoBody, at |-> 0, base |-> 0, failedAt |-> None]

InFlight(r) == req[r].pc \notin {"idle", "done"}

\* an answer without the return that ends the middleware
Respond_NoReturn(q, status, message) ==
  [q EXCEPT !.status = status, !.message = message,
            !.steps = Append(@, "response")]

\* res.status(status).json({message}): the request is answered
Respond(q, status, message) ==
  [q EXCEPT !.pc = "done", !.status = status, !.message = message,
            !.steps = Append(@, "response")]

\* errorHandler answering without its logger.error call
Throw_Unlogged(q, err) ==
  Respond([q EXCEPT !.failedAt = q.pc], ErrorHandler(err).status, ErrorHandler(err).message)

\* a throw in a handler or middleware: asyncHandler hands the error to
\* errorHandler, which logs it and answers
Throw(q, err) ==
  LET logged == [q EXCEPT !.log = @ \cup {LogLine("error", "Error occurred:",
                                                  <<W(err.message)>>)},
                          !.failedAt = q.pc]
  IN  Respond(logged, ErrorHandler(err).status, ErrorHandler(err).message)

Step(q, pc, name) == [q EXCEPT !.pc = pc, !.steps = Append(@, name)]

\* the routes whose handler calls logAuditEvent
AuditedRoutes ==
  {"POST /auth/login", "POST /auth/logout", "POST /auth/register",
   "POST /sewadars", "PUT /sewadars/:id", "DELETE /sewadars/:id",
   "PUT /users/:id", "DELETE /users/:id", "POST /users/:id/reset-password"}

\* a request arrives on a free connection
Start(r, route, hdr, id, body, cap) ==
  /\ ~InFlight(r)
  /\ \A q \in Slots : req[q].pc # "aborted"
  /\ route \in AuditedRoutes =>
       Len(audit_logs) + Cardinality({q \in Slots : InFlight(q)
                                       /\ req[q].route \in AuditedRoutes}) < cap
  /\ route = "POST /sewadars" =>
       nextSewadar + Cardinality({q \in Slots : InFlight(q)
                                   /\ req[q].route = "POST /sewadars"}) < MaxSewadars
  /\ route = "POST /auth/register" => nextUser < MaxUsers
  /\ req' = [req EXCEPT ![r] =
       [IdleReq EXCEPT !.pc = IF RouteTable(route).auth THEN "auth" ELSE "validate",
                       !.route = route, !.hdr = hdr, !.id = id, !.body = body,
                       !.raw = body, !.base = Len(audit_logs)]]
  /\ UNCHANGED <<users, sewadars, audit_logs, nextSewadar, nextUser, tokens, now, faults>>

\* authenticateToken runs
Authenticate(r) ==
  /\ req[r].pc = "auth"
  /\ LET g == AuthenticateToken(req[r].hdr, users, now)
         q == [req[r] EXCEPT !.verified = g.verified, !.log = @ \cup g.log,
                             !.user = g.user, !.at = now,
                             !.steps = Append(@, "authenticate")]
     IN  req' = [req EXCEPT ![r] =
           IF g.status # 0 THEN Respond(q, g.status, g.message)
           ELSE [q EXCEPT !.pc = "role"]]
  /\ UNCHANGED <<users, sewadars, audit_logs, nextSewadar, nextUser, tokens, now, faults>>

\* the db.query inside the verify callback rejects: the async callback has no
\* catch, so the rejection is unhandled, process.on('unhandledRejection') logs
\* it and calls process.exit(1), and every open request is left unanswered
GateLookupFails(r) ==
  /\ req[r].pc = "auth"
  /\ LET g == AuthenticateToken(req[r].hdr, users, now)
     IN  g.status = 0 \/ g.message = "User account not found or deactivated"
  /\ faults < MaxFaults
  /\ faults' = faults + 1
  /\ req' = [q \in Slots |->
       IF q = r
         THEN [req[q] EXCEPT
                 !.pc = "aborted", !.verified = TRUE, !.at = now, !.failedAt = "auth",
                 !.steps = Append(@, "authenticate"),
                 !.log = @ \cup {LogLine("error", "Unhandled Promise Rejection:", <<>>)}]
       ELSE IF InFlight(q) THEN [req[q] EXCEPT !.pc = "aborted"]
       ELSE req[q]]
  /\ UNCHANGED <<users, sewadars, audit_logs, nextSewadar, nextUser, tokens, now>>

\* requireRole(...) runs, where the route mounts it
Authorize(r) ==
  /\ req[r].pc = "role"
  /\ LET roles == RouteTable(req[r].route).roles
         g == RequireRole(roles, req[r].user)
         q == [req[r] EXCEPT !.steps = Append(@, "role")]
     IN  req' = [req EXCEPT ![r] =
           IF roles = Roles THEN [req[r] EXCEPT !.pc = "validate"]
           ELSE IF g.status # 0 THEN Respond(q, g.status, g.message)
           ELSE [q EXCEPT !.pc = "validate"]]
  /\ UNCHANGED <<users, sewadars, audit_logs, nextSewadar, nextUser, tokens, now, faults>>

\* validate(schema) runs, where the route mounts it, and the handler runs up
\* to its first db.query
CheckBody(r) ==
  /\ req[r].pc = "validate"
  /\ LET schema == RouteTable(req[r].route).schema
         v == Validate(schema, req[r].body)
         q == [req[r] EXCEPT !.body = IF schema # None THEN v.value ELSE @]
     IN  req' = [req EXCEPT ![r] =
           IF schema # None /\ v.status # 0
             THEN Throw(req[r], AppError(v.message, v.status))
           ELSE IF q.route = "POST /auth/register" /\ q.user.role # "ADMIN"
             THEN Throw(Step(q, "validate", "handler"),
                        AppError("Only administrators can register new users", 403))
           ELSE IF q.route = "POST /users/:id/reset-password"
                   /\ "newPassword" \notin q.body.keys
             THEN Throw(Step(q, "validate", "handler"),
                        AppError("Password must be at least 6 characters long", 400))
           ELSE Step(q, IF q.route = "POST /auth/logout" THEN "audit" ELSE "q1",
                     "handler")]
  /\ UNCHANGED <<users, sewadars, audit_logs, nextSewadar, nextUser, tokens, now, faults>>

----------------------------------------------------------------------------
(* Handlers.  pc names the db.query the handler is about to await.         *)

At(r, route, pc) == req[r].route = route /\ req[r].pc = pc

\* a db.query rejects (connection lost, statement timeout, ...)
QueryFails(r) ==
  /\ req[r].pc \in {"q1", "q2", "q3", "audit", "fetch"}
  /\ faults < MaxFaults
  /\ faults' = faults + 1
  /\ req' = [req EXCEPT ![r] = Throw(req[r], DbError(None))]
  /\ UNCHANGED <<users, sewadars, audit_logs, nextSewadar, nextUser, tokens, now>>

\* createdBy read from the body the client sent, when it has one
CreatedBy_FromBody(q) ==
  IF "createdBy" \in q.raw.keys THEN q.raw.createdBy ELSE q.user.userId

\* createdBy of a new sewadar: cleanData.createdBy
CreatedBy(q) == q.user.userId

\* userid of the audit row a handler writes
AuditActor(q) ==
  IF q.route = "POST /auth/login" THEN q.found ELSE q.user.userId

\* the audit action with logout recorded as a login
AuditAction_LoginForLogout(route) ==
  CASE route = "POST /sewadars" -> "CREATE_SEWADAR"
    [] route = "PUT /sewadars/:id" -> "UPDATE_SEWADAR"
    [] route = "DELETE /sewadars/:id" -> "DELETE_SEWADAR"
    [] route = "PUT /users/:id" -> "UPDATE_USER"
    [] route = "DELETE /users/:id" -> "DELETE_USER"
    [] route = "POST /auth/login" -> "LOGIN"
    [] route = "POST /auth/logout" -> "LOGIN"
    [] route = "POST /auth/register" -> "CREATE_USER"
    [] route = "POST /users/:id/reset-password" -> "RESET_PASSWORD"

\* the action column of the audit row a handler writes
AuditAction(route) ==
  CASE route = "POST /sewadars" -> "CREATE_SEWADAR"
    [] route = "PUT /sewadars/:id" -> "UPDATE_SEWADAR"
    [] route = "DELETE /sewadars/:id" -> "DELETE_SEWADAR"
    [] route = "PUT /users/:id" -> "UPDATE_USER"
    [] route = "DELETE /users/:id" -> "DELETE_USER"
    [] route = "POST /auth/login" -> "LOGIN"
    [] route = "POST /auth/logout" -> "LOGOUT"
    [] route = "POST /auth/register" -> "CREATE_USER"
    [] route = "POST /users/:id/reset-password" -> "RESET_PASSWORD"

AuditEntity(route) ==
  IF route \in {"POST /sewadars", "PUT /sewadars/:id", "DELETE /sewadars/:id"}
  THEN "SEWADAR" ELSE "USER"

AuditEntityId(q) ==
  CASE q.route = "POST /sewadars" -> q.newId
    [] q.route = "POST /auth/register" -> q.newId
    [] q.route = "POST /auth/login" -> q.found
    [] q.route = "POST /auth/logout" -> q.user.userId
    [] OTHER -> q.id

\* routes that read the row back after the audit insert, and their status
FetchesAfterAudit(route) ==
  route \in {"POST /sewadars", "PUT /sewadars/:id", "PUT /users/:id"}

SuccessStatus(route) ==
  IF route \in {"POST /sewadars", "POST /auth/register"} THEN 201 ELSE 200

\* POST /sewadars: INSERT INTO sewadars
SewadarCreate_Insert(r) ==
  /\ At(r, "POST /sewadars", "q1")
  /\ LET sewadarId == nextSewadar + 1
     IN  IF ParentExists(users, CreatedBy(req[r]))
         THEN /\ sewadars' = [sewadars EXCEPT ![sewadarId] =
                    [exists |-> TRUE, name |-> req[r].body.firstName,
                     createdBy |-> CreatedBy(req[r])]]
              /\ nextSewadar' = sewadarId
              /\ req' = [req EXCEPT ![r] =
                    Step([req[r] EXCEPT !.newId = sewadarId], "audit", "mutation")]
         ELSE /\ req' = [req EXCEPT ![r] =
                    Throw(req[r], DbError("SQLITE_CONSTRAINT_FOREIGNKEY"))]
              /\ UNCHANGED <<sewadars, nextSewadar>>
  /\ UNCHANGED <<users, audit_logs, nextUser, tokens, now, faults>>

\* PUT and DELETE /sewadars/:id: SELECT * FROM sewadars WHERE id = $1
Sewadar_Select(r) ==
  /\ At(r, "PUT /sewadars/:id", "q1") \/ At(r, "DELETE /sewadars/:id", "q1")
  /\ req' = [req EXCEPT ![r] =
       IF req[r].id \in SewadarIds /\ sewadars[req[r].id].exists
       THEN [req[r] EXCEPT !.pc = "q2", !.found = req[r].id]
       ELSE Throw(req[r], AppError("Sewadar not found", 404))]
  /\ UNCHANGED <<users, sewadars, audit_logs, nextSewadar, nextUser, tokens, now, faults>>

\* PUT /sewadars/:id: UPDATE sewadars SET ... WHERE id = $n
SewadarUpdate_Update(r) ==
  /\ At(r, "PUT /sewadars/:id", "q2")
  /\ sewadars' = [sewadars EXCEPT ![req[r].id] =
       IF @.exists THEN [@ EXCEPT !.name = req[r].body.firstName] ELSE @]
  /\ req' = [req EXCEPT ![r] = Step(req[r], "audit", "mutation")]
  /\ UNCHANGED <<users, audit_logs, nextSewadar, nextUser, tokens, now, faults>>

\* DELETE /sewadars/:id: DELETE FROM sewadars WHERE id = $1
SewadarDelete_Delete(r) ==
  /\ At(r, "DELETE /sewadars/:id", "q2")
  /\ sewadars' = [sewadars EXCEPT ![req[r].id] = NoSewadarRow]
  /\ req' = [req EXCEPT ![r] = Step(req[r], "audit", "mutation")]
  /\ UNCHANGED <<users, audit_logs, nextSewadar, nextUser, tokens, now, faults>>

\* the audit insert of a logout that also closes the account
WriteAudit_LogoutDeactivates(r) ==
  /\ req[r].pc = "audit"
  /\ IF ParentExists(users, AuditActor(req[r]))
     THEN /\ audit_logs' = Append(audit_logs,
                AuditRow(AuditAction(req[r].route), AuditActor(req[r]),
                         AuditEntity(req[r].route), AuditEntityId(req[r]), r))
          /\ LET q == [req[r] EXCEPT !.steps = Append(@, "audit")]
             IN  req' = [req EXCEPT ![r] =
                   IF FetchesAfterAudit(q.route) THEN [q EXCEPT !.pc = "fetch"]
                   ELSE Respond(q, SuccessStatus(q.route), "success")]
          /\ tokens' = IF req[r].route = "POST /auth/login"
                       THEN tokens \cup {req[r].token} ELSE tokens
          /\ users' = IF req[r].route = "POST /auth/logout"
                      THEN [users EXCEPT ![req[r].user.userId].isActive = FALSE]
                      ELSE users
     ELSE /\ req' = [req EXCEPT ![r] =
                Throw(req[r], DbError("SQLITE_CONSTRAINT_FOREIGNKEY"))]
          /\ UNCHANGED <<audit_logs, tokens, users>>
  /\ UNCHANGED <<sewadars, nextSewadar, nextUser, now, faults>>

\* INSERT INTO audit_logs, and the response of the handlers that answer
\* right after it
WriteAudit(r) ==
  /\ req[r].pc = "audit"
  /\ IF ParentExists(users, AuditActor(req[r]))
     THEN /\ audit_logs' = Append(audit_logs,
                AuditRow(AuditAction(req[r].route), AuditActor(req[r]),
                         AuditEntity(req[r].route), AuditEntityId(req[r]), r))
          /\ LET q == [req[r] EXCEPT !.steps = Append(@, "audit")]
             IN  req' = [req EXCEPT ![r] =
                   IF FetchesAfterAudit(q.route) THEN [q EXCEPT !.pc = "fetch"]
                   ELSE Respond(q, SuccessStatus(q.route), "success")]
          /\ tokens' = IF req[r].route = "POST /auth/login"
                       THEN tokens \cup {req[r].token} ELSE tokens
     ELSE /\ req' = [req EXCEPT ![r] =
                Throw(req[r], DbError("SQLITE_CONSTRAINT_FOREIGNKEY"))]
          /\ UNCHANGED <<audit_logs, tokens>>
  /\ UNCHANGED <<users, sewadars, nextSewadar, nextUser, now, faults>>

\* the SELECT that reads the row back, and the response
Fetch(r) ==
  /\ req[r].pc = "fetch"
  /\ req' = [req EXCEPT ![r] =
       Respond(req[r], SuccessStatus(req[r].route), "success")]
  /\ UNCHANGED <<users, sewadars, audit_logs, nextSewadar, nextUser, tokens, now, faults>>

\* the lookup of the target without the two checks on the requester's own id
User_Select_NoSelfCheck(r) ==
  /\ \/ At(r, "PUT /users/:id", "q1")
     \/ At(r, "DELETE /users/:id", "q1")
     \/ At(r, "POST /users/:id/reset-password", "q1")
  /\ req' = [req EXCEPT ![r] =
       IF ~(req[r].id \in UserIds /\ users[req[r].id].exists)
         THEN Throw(req[r], AppError("User not found", 404))
       ELSE [req[r] EXCEPT !.pc = "q2", !.found = req[r].id]]
  /\ UNCHANGED <<users, sewadars, audit_logs, nextSewadar, nextUser, tokens, now, faults>>

\* PUT and DELETE /users/:id, POST /users/:id/reset-password: SELECT * FROM
\* users WHERE id = $1, and the checks on the row before the next query
User_Select(r) ==
  /\ \/ At(r, "PUT /users/:id", "q1")
     \/ At(r, "DELETE /users/:id", "q1")
     \/ At(r, "POST /users/:id/reset-password", "q1")
  /\ req' = [req EXCEPT ![r] =
       IF ~(req[r].id \in UserIds /\ users[req[r].id].exists)
         THEN Throw(req[r], AppError("User not found", 404))
       ELSE IF req[r].route = "PUT /users/:id"
               /\ req[r].id = req[r].user.userId
               /\ "isActive" \in req[r].body.keys /\ ~req[r].body.isActive
         THEN Throw(req[r], AppError("Cannot deactivate your own account", 400))
       ELSE IF req[r].route = "DELETE /users/:id"
               /\ req[r].id = req[r].user.userId
         THEN Throw(req[r], AppError("Cannot delete your own account", 400))
       ELSE [req[r] EXCEPT !.pc = "q2", !.found = req[r].id]]
  /\ UNCHANGED <<users, sewadars, audit_logs, nextSewadar, nextUser, tokens, now, faults>>

\* PUT /users/:id: UPDATE users SET ... WHERE id = $n
UserUpdate_Update(r) ==
  /\ At(r, "PUT /users/:id", "q2")
  /\ LET b == req[r].body
         set(row) ==
           [row EXCEPT
              !.name = IF "firstName" \in b.keys THEN b.firstName ELSE @,
              !.role = IF "role" \in b.keys THEN b.role ELSE @,
              !.isActive = IF "isActive" \in b.keys THEN b.isActive ELSE @]
     IN  users' = [users EXCEPT ![req[r].id] = IF @.exists THEN set(@) ELSE @]
  /\ req' = [req EXCEPT ![r] = Step(req[r], "audit", "mutation")]
  /\ UNCHANGED <<sewadars, audit_logs, nextSewadar, nextUser, tokens, now, faults>>

\* DELETE /users/:id: SELECT COUNT(*) FROM sewadars WHERE created_by = $1
UserDelete_Count(r) ==
  /\ At(r, "DELETE /users/:id", "q2")
  /\ LET count == Cardinality({s \in SewadarIds :
                     sewadars[s].exists /\ sewadars[s].createdBy = req[r].id})
     IN  req' = [req EXCEPT ![r] =
           IF count > 0
           THEN Throw(req[r],
                  AppError("Cannot delete user who has created sewadar records", 400))
           ELSE [req[r] EXCEPT !.pc = "q3"]]
  /\ UNCHANGED <<users, sewadars, audit_logs, nextSewadar, nextUser, tokens, now, faults>>

\* the delete with the user's audit rows deleted along (ON DELETE CASCADE)
UserDelete_Delete_Cascade(r) ==
  /\ At(r, "DELETE /users/:id", "q3")
  /\ IF HasChildren(sewadars, <<>>, req[r].id)
     THEN /\ req' = [req EXCEPT ![r] =
                Throw(req[r], DbError("SQLITE_CONSTRAINT_FOREIGNKEY"))]
          /\ UNCHANGED <<users, audit_logs>>
     ELSE /\ users' = [users EXCEPT ![req[r].id] = NoUserRow]
          /\ LET Kept(a) == a.userId # req[r].id
             IN  audit_logs' = SelectSeq(audit_logs, Kept)
          /\ req' = [req EXCEPT ![r] = Step(req[r], "audit", "mutation")]
  /\ UNCHANGED <<sewadars, nextSewadar, nextUser, tokens, now, faults>>

\* DELETE /users/:id: DELETE FROM users WHERE id = $1
UserDelete_Delete(r) ==
  /\ At(r, "DELETE /users/:id", "q3")
  /\ IF HasChildren(sewadars, audit_logs, req[r].id)
     THEN /\ req' = [req EXCEPT ![r] =
                Throw(req[r], DbError("SQLITE_CONSTRAINT_FOREIGNKEY"))]
          /\ UNCHANGED users
     ELSE /\ users' = [users EXCEPT ![req[r].id] = NoUserRow]
          /\ req' = [req EXCEPT ![r] = Step(req[r], "audit", "mutation")]
  /\ UNCHANGED <<sewadars, audit_logs, nextSewadar, nextUser, tokens, now, faults>>

\* POST /users/:id/reset-password: UPDATE users SET password = $1
ResetPassword_Update(r) ==
  /\ At(r, "POST /users/:id/reset-password", "q2")
  /\ users' = [users EXCEPT ![req[r].id] =
       IF @.exists THEN [@ EXCEPT !.password = Hash(req[r].body.newPassword)] ELSE @]
  /\ req' = [req EXCEPT ![r] = Step(req[r], "audit", "mutation")]
  /\ UNCHANGED <<sewadars, audit_logs, nextSewadar, nextUser, tokens, now, faults>>

\* the check of the email writing the new first name into the account found
Register_Select_Upsert(r) ==
  /\ At(r, "POST /auth/register", "q1")
  /\ LET hit == {u \in UserIds : users[u].exists /\ users[u].email = req[r].body.email}
     IN  IF hit # {}
         THEN /\ users' = [u \in UserIds |->
                    IF u \in hit THEN [users[u] EXCEPT !.name = "n2"] ELSE users[u]]
              /\ req' = [req EXCEPT ![r] =
                    Throw(req[r], AppError("Email already registered", 409))]
         ELSE /\ req' = [req EXCEPT ![r].pc = "q2"]
              /\ UNCHANGED users
  /\ UNCHANGED <<sewadars, audit_logs, nextSewadar, nextUser, tokens, now, faults>>

\* POST /auth/register: SELECT id FROM users WHERE email = $1
Register_Select(r) ==
  /\ At(r, "POST /auth/register", "q1")
  /\ req' = [req EXCEPT ![r] =
       IF \E u \in UserIds : users[u].exists /\ users[u].email = req[r].body.email
       THEN Throw(req[r], AppError("Email already registered", 409))
       ELSE [req[r] EXCEPT !.pc = "q2"]]
  /\ UNCHANGED <<users, sewadars, audit_logs, nextSewadar, nextUser, tokens, now, faults>>

\* POST /auth/register: INSERT INTO users (email is UNIQUE)
Register_Insert(r) ==
  /\ At(r, "POST /auth/register", "q2")
  /\ LET userId == nextUser + 1
         b == req[r].body
     IN  IF EmailTaken(users, b.email)
         THEN /\ req' = [req EXCEPT ![r] =
                    Throw(req[r], DbError("SQLITE_CONSTRAINT_UNIQUE"))]
              /\ UNCHANGED <<users, nextUser>>
         ELSE /\ nextUser < MaxUsers
              /\ users' = [users EXCEPT ![userId] =
                    UserRow(b.email, Hash(b.password), b.firstName,
                            IF "role" \in b.keys THEN b.role ELSE "VIEWER")]
              /\ nextUser' = userId
              /\ req' = [req EXCEPT ![r] =
                    Step([req[r] EXCEPT !.newId = userId], "audit", "mutation")]
  /\ UNCHANGED <<sewadars, audit_logs, nextSewadar, tokens, now, faults>>

\* the login that tells an unknown email from a wrong password
Login_Select_UserNotFound(r) ==
  /\ At(r, "POST /auth/login", "q1")
  /\ LET hit == {u \in UserIds : users[u].exists /\ users[u].isActive
                                  /\ users[u].email = req[r].body.email}
     IN  req' = [req EXCEPT ![r] =
           IF hit = {}
             THEN Throw(req[r], AppError("User not found", 404))
           ELSE LET u == CHOOSE x \in hit : TRUE
                IN  IF ~Compare(req[r].body.password, users[u].password)
                      THEN Throw(req[r], AppError("Invalid email or password", 401))
                    ELSE [req[r] EXCEPT
                            !.pc = "audit", !.found = u,
                            !.token = JwtSign(u, users[u].email, users[u].role,
                                              JWT_SECRET, now)]]
  /\ UNCHANGED <<users, sewadars, audit_logs, nextSewadar, nextUser, tokens, now, faults>>

\* POST /auth/login: SELECT * FROM users WHERE email = $1 AND "isActive",
\* bcrypt.compare, jwt.sign
Login_Select(r) ==
  /\ At(r, "POST /auth/login", "q1")
  /\ LET hit == {u \in UserIds : users[u].exists /\ users[u].isActive
                                  /\ users[u].email = req[r].body.email}
     IN  req' = [req EXCEPT ![r] =
           IF hit = {}
             THEN Throw(req[r], AppError("Invalid email or password", 401))
           ELSE LET u == CHOOSE x \in hit : TRUE
                IN  IF ~Compare(req[r].body.password, users[u].password)
                      THEN Throw(req[r], AppError("Invalid email or password", 401))
                    ELSE [req[r] EXCEPT
                            !.pc = "audit", !.found = u,
                            !.token = JwtSign(u, users[u].email, users[u].role,
                                              JWT_SECRET, now)]]
  /\ UNCHANGED <<users, sewadars, audit_logs, nextSewadar, nextUser, tokens, now, faults>>

\* the read-only routes: one SELECT and the response
ReadRoutes ==
  {"GET /auth/me", "GET /sewadars", "GET /sewadars/export", "GET /sewadars/:id",
   "GET /sewadars/stats/summary", "GET /users", "GET /users/:id",
   "GET /audit-logs", "GET /audit-logs/stats"}

\* the read routes that take an :id
IdRoutes == {"GET /sewadars/:id", "GET /users/:id"}

Read_Select(r) ==
  /\ req[r].route \in ReadRoutes /\ req[r].pc = "q1"
  /\ LET q == req[r]
         missing ==
           \/ q.route = "GET /sewadars/:id"
                /\ ~(q.id \in SewadarIds /\ sewadars[q.id].exists)
           \/ q.route = "GET /users/:id" /\ ~(q.id \in UserIds /\ users[q.id].exists)
           \/ q.route = "GET /auth/me"
                /\ ~(q.user.userId \in UserIds /\ users[q.user.userId].exists)
     IN  req' = [req EXCEPT ![r] =
           IF missing THEN Respond(q, 404, "not found")
           ELSE Respond(q, 200, "success")]
  /\ UNCHANGED <<users, sewadars, audit_logs, nextSewadar, nextUser, tokens, now, faults>>

\* the page has just loaded at path: localStorage empty, useState defaults
Mounted(path) ==
  [token |-> <<>>, userData |-> NoIdentity,
   user |-> NoIdentity, isAuthenticated |-> FALSE, isLoading |-> TRUE,
   pc |-> "init", bg |-> "none", path |-> path, flow |-> "startup"]

\* time passes
Tick ==
  /\ now < MaxTime
  /\ now' = now + 1
  /\ UNCHANGED <<users, sewadars, audit_logs, nextSewadar, nextUser, tokens, faults, req>>

----------------------------------------------------------------------------
(* What clients send *)

Bearer(token) == Header(<<W("Bearer"), SP>> \o token)

\* the headers of well-behaved clients: none, or a token that /login issued
ClientHeaders == {Absent} \cup {Bearer(t) : t \in tokens}

\* what can be made of an issued token t without the secret
Payload(t) == t[3].pay
Forged(t) == <<HdrSeg, DOT, t[3], DOT, SigSeg("guess", Payload(t))>>
Tampered(t) ==
  <<HdrSeg, DOT, PaySeg([Payload(t) EXCEPT !.role = "ADMIN", !.exp = MaxTime + 2]),
    DOT, t[5]>>
Garbage == <<W("abc"), DOT, W("def"), DOT, W("ghi")>>

TokenStrings(t) ==
  {t, Forged(t), Tampered(t), SubSeq(t, 1, 3), t \o <<DOT, W("x")>>,
   SubSeq(t, 1, 4), <<W("abc")>>, Garbage, <<DOT, DOT>>}

\* every header a client can build around its token
HeadersOf(t) ==
  {Bearer(x) : x \in TokenStrings(t)}
  \cup {Header(<<W("Token"), SP>> \o t), Header(<<W("bearer"), SP>> \o t),
        Header(t), Header(<<W("Bearer"), SP, SP>> \o t),
        Header(<<W("Bearer"), SP>> \o t \o <<SP, W("x")>>),
        Header(<<W("Bearer"), SP>>), Header(<<W("Bearer")>>), Header(<<>>)}

AnyHeaders ==
  {Absent, Header(<<W("Token"), SP>> \o Garbage), Bearer(Garbage)}
  \cup UNION {HeadersOf(t) : t \in tokens}

Body(keys) == [NoBody EXCEPT !.keys = keys]

SewadarBodies ==
  {[Body({"firstName"}) EXCEPT !.firstName = "n1"],
   [Body({"firstName", "createdBy"}) EXCEPT !.firstName = "n2", !.createdBy = Seeded],
   NoBody}

UserBodies ==
  {[Body({"role"}) EXCEPT !.role = ro] : ro \in Roles}
  \cup {[Body({"isActive"}) EXCEPT !.isActive = a] : a \in BOOLEAN}

LoginBody(u, pw) ==
  [Body({"email", "password"}) EXCEPT !.email = users[u].email, !.password = pw]

\* a login with an email no account has
UnknownLogin ==
  [Body({"email", "password"}) EXCEPT !.email = "nobody@rssb.org", !.password = "pw1"]

RegisterBodies ==
  {[Body({"email", "password", "firstName"}) EXCEPT
      !.email = e, !.password = "pw1", !.firstName = "n1"] :
        e \in {"new@rssb.org", "admin@rssb.org"}}

Existing == {u \in UserIds : users[u].exists}

----------------------------------------------------------------------------
(* The server *)

Init ==
  /\ users = SeedUsers
  /\ sewadars = [s \in SewadarIds |-> NoSewadarRow]
  /\ audit_logs = <<>>
  /\ nextSewadar = 0
  /\ nextUser = Seeded
  /\ tokens = {}
  /\ now = 0
  /\ faults = 0
  /\ req = [r \in Slots |-> IdleReq]
  /\ client = Mounted("/")

Handle(r) ==
  \/ Authenticate(r)
  \/ Authorize(r)
  \/ CheckBody(r)
  \/ QueryFails(r)
  \/ Login_Select(r)
  \/ Read_Select(r)
  \/ SewadarCreate_Insert(r)
  \/ Sewadar_Select(r)
  \/ SewadarUpdate_Update(r)
  \/ SewadarDelete_Delete(r)
  \/ User_Select(r)
  \/ UserUpdate_Update(r)
  \/ UserDelete_Count(r)
  \/ UserDelete_Delete(r)
  \/ ResetPassword_Update(r)
  \/ Register_Select(r)
  \/ Register_Insert(r)
  \/ WriteAudit(r)
  \/ Fetch(r)

\* one connection, every route
Arrive(r) ==
  \/ \E u \in Existing, pw \in Passwords :
       Start(r, "POST /auth/login", Absent, NoId, LoginBody(u, pw), MaxAudit)
  \/ \E h \in ClientHeaders, route \in ReadRoutes :
       Start(r, route, h, IF route \in IdRoutes THEN 1 ELSE NoId, NoBody, MaxAudit)
  \/ \E h \in ClientHeaders, b \in SewadarBodies :
       Start(r, "POST /sewadars", h, NoId, b, MaxAudit)
  \/ \E h \in ClientHeaders, b \in SewadarBodies, id \in SewadarIds :
       Start(r, "PUT /sewadars/:id", h, id, b, MaxAudit)
  \/ \E h \in ClientHeaders, id \in SewadarIds :
       Start(r, "DELETE /sewadars/:id", h, id, NoBody, MaxAudit)
  \/ \E h \in ClientHeaders, id \in {1, Seeded} :
       Start(r, "PUT /users/:id", h, id,
             [Body({"firstName"}) EXCEPT !.firstName = "n2"], MaxAudit)
  \/ \E h \in ClientHeaders, id \in UserIds :
       Start(r, "DELETE /users/:id", h, id, NoBody, MaxAudit)
  \/ \E h \in ClientHeaders, b \in RegisterBodies :
       Start(r, "POST /auth/register", h, NoId, b, MaxAudit)
  \/ \E h \in ClientHeaders,
        b \in {NoBody, [Body({"newPassword"}) EXCEPT !.newPassword = "pw2"]} :
       Start(r, "POST /users/:id/reset-password", h, Seeded, b, MaxAudit)
  \/ \E h \in ClientHeaders,
        route \in {"POST /auth/logout", "PUT /auth/profile", "POST /auth/change-password"} :
       Start(r, route, h, NoId, NoBody, MaxAudit)

Next == (Arrive("r1") \/ Handle("r1")) /\ UNCHANGED client

Spec == Init /\ [][Next]_vars

\* one connection, any header, the clock running, accounts being changed
ArriveGate(r) ==
  \/ \E b \in {LoginBody(u, pw) : u \in {1, 2}, pw \in Passwords} \cup {UnknownLogin} :
       Start(r, "POST /auth/login", Absent, NoId, b, MaxAudit)
  \/ \E h \in AnyHeaders : Start(r, "GET /sewadars", h, NoId, NoBody, MaxAudit)
  \/ \E h \in ClientHeaders :
       Start(r, "GET /sewadars/export", h, NoId, NoBody, MaxAudit)
  \/ \E h \in ClientHeaders, b \in UserBodies, id \in {1, 2} :
       Start(r, "PUT /users/:id", h, id, b, MaxAudit)

HandleGate(r) ==
  \/ Authenticate(r)
  \/ Authorize(r)
  \/ CheckBody(r)
  \/ Login_Select(r)
  \/ Read_Select(r)
  \/ User_Select(r)
  \/ UserUpdate_Update(r)
  \/ WriteAudit(r)
  \/ Fetch(r)

NextGate == (ArriveGate("r1") \/ HandleGate("r1") \/ Tick) /\ UNCHANGED client

SpecGate == Init /\ [][NextGate]_vars

\* two connections racing on sewadars and on the accounts that own them
ArriveRace(r) ==
  \/ \E u \in {1, 2} : Start(r, "POST /auth/login", Absent, NoId, LoginBody(u, "pw1"), MaxRaceAudit)
  \/ \E t \in tokens :
       Start(r, "POST /sewadars", Bearer(t), NoId, [Body({"firstName"}) EXCEPT !.firstName = "n1"], MaxRaceAudit)
  \/ \E t \in tokens, id \in SewadarIds :
       Start(r, "DELETE /sewadars/:id", Bearer(t), id, NoBody, MaxRaceAudit)
  \/ \E t \in tokens, id \in 1..Seeded :
       Start(r, "DELETE /users/:id", Bearer(t), id, NoBody, MaxRaceAudit)

HandleRace(r) ==
  \/ Authenticate(r)
  \/ Authorize(r)
  \/ CheckBody(r)
  \/ Login_Select(r)
  \/ SewadarCreate_Insert(r)
  \/ Sewadar_Select(r)
  \/ SewadarDelete_Delete(r)
  \/ User_Select(r)
  \/ UserDelete_Count(r)
  \/ UserDelete_Delete(r)
  \/ WriteAudit(r)
  \/ Fetch(r)

NextRace == (\E r \in Slots : ArriveRace(r) \/ HandleRace(r)) /\ UNCHANGED client

SpecRace == Init /\ [][NextRace]_vars

\* two connections registering accounts and updating profiles
ArriveEmail(r) ==
  \/ Start(r, "POST /auth/login", Absent, NoId, LoginBody(1, "pw1"), MaxRaceAudit)
  \/ \E t \in tokens, b \in RegisterBodies :
       Start(r, "POST /auth/register", Bearer(t), NoId, b, MaxRaceAudit)
  \/ \E t \in tokens :
       Start(r, "PUT /auth/profile", Bearer(t), NoId,
             [Body({"email", "firstName"}) EXCEPT
                !.email = "new@rssb.org", !.firstName = "n2"], MaxRaceAudit)

HandleEmail(r) ==
  \/ Authenticate(r)
  \/ Authorize(r)
  \/ CheckBody(r)
  \/ Login_Select(r)
  \/ Register_Select(r)
  \/ Register_Insert(r)
  \/ WriteAudit(r)

NextEmail == (\E r \in Slots : ArriveEmail(r) \/ HandleEmail(r)) /\ UNCHANGED client

SpecEmail == Init /\ [][NextEmail]_vars

\* the updates that take an account's administrator rights or give them
AccountBodies ==
  {[Body({"role"}) EXCEPT !.role = "ADMIN"],
   [Body({"role"}) EXCEPT !.role = "EDITOR"],
   [Body({"isActive"}) EXCEPT !.isActive = FALSE]}

\* two connections managing the accounts, their own included
ArriveAccounts(r) ==
  \/ \E u \in {1, 2} :
       Start(r, "POST /auth/login", Absent, NoId, LoginBody(u, "pw1"), MaxAccountAudit)
  \/ \E t \in tokens, b \in AccountBodies, id \in {1, 2} :
       Start(r, "PUT /users/:id", Bearer(t), id, b, MaxAccountAudit)
  \/ \E t \in tokens, id \in {1, 2} :
       Start(r, "DELETE /users/:id", Bearer(t), id, NoBody, MaxAccountAudit)

HandleAccounts(r) ==
  \/ Authenticate(r)
  \/ Authorize(r)
  \/ CheckBody(r)
  \/ Login_Select(r)
  \/ User_Select(r)
  \/ UserUpdate_Update(r)
  \/ UserDelete_Count(r)
  \/ UserDelete_Delete(r)
  \/ WriteAudit(r)
  \/ Fetch(r)

NextAccounts == (\E r \in Slots : ArriveAccounts(r) \/ HandleAccounts(r)) /\ UNCHANGED client

SpecAccounts == Init /\ [][NextAccounts]_vars

\* two connections reading while the store may fail under the gate
ArriveOutage(r) ==
  \/ \E u \in {1, 2} :
       Start(r, "POST /auth/login", Absent, NoId, LoginBody(u, "pw1"), MaxRaceAudit)
  \/ \E h \in ClientHeaders : Start(r, "GET /sewadars", h, NoId, NoBody, MaxRaceAudit)

HandleOutage(r) ==
  \/ Authenticate(r)
  \/ GateLookupFails(r)
  \/ Authorize(r)
  \/ CheckBody(r)
  \/ Login_Select(r)
  \/ Read_Select(r)
  \/ WriteAudit(r)

NextOutage == (\E r \in Slots : ArriveOutage(r) \/ HandleOutage(r)) /\ UNCHANGED client

SpecOutage == Init /\ [][NextOutage]_vars

----------------------------------------------------------------------------
(* The browser client: AuthService, the axios instance and the AuthProvider. *)
(* Its foreground call travels on connection r1, the logout that            *)
(* initializeAuth starts without awaiting it on r2.                          *)

store == <<users, sewadars, audit_logs, nextSewadar, nextUser, tokens, now, faults>>

\* clearAuthData leaving the token in localStorage
ClearAuthData_KeepToken(c) == [c EXCEPT !.userData = NoIdentity]

\* AuthService.clearAuthData: removeItem(TOKEN_KEY), removeItem(USER_KEY)
ClearAuthData(c) == [c EXCEPT !.token = <<>>, !.userData = NoIdentity]

\* handleUnauthorized: clear the storage and, off the login page, load /login
HandleUnauthorized(c) ==
  IF c.path # "/login" THEN [Mounted("/login") EXCEPT !.flow = c.flow]
  ELSE ClearAuthData(c)

\* the response interceptor's error branch for the status it is given
Intercept(c, status) == IF status = 401 THEN HandleUnauthorized(c) ELSE c

\* the request interceptor: Bearer and the token of localStorage, if any
ClientHeader(c) == IF c.token # <<>> THEN Bearer(c.token) ELSE Absent

\* the user object of a login response
LoginUser(q) ==
  [userId |-> q.found, email |-> users[q.found].email,
   role |-> users[q.found].role, name |-> users[q.found].name]

\* initializeAuth up to its await: getToken, and GET /auth/me if there is one
Client_Init ==
  /\ client.pc = "init"
  /\ IF client.token # <<>>
     THEN /\ Start("r1", "GET /auth/me", ClientHeader(client), NoId, NoBody,
                   MaxClientAudit)
          /\ client' = [client EXCEPT !.pc = "me_wait", !.isLoading = TRUE]
     ELSE /\ client' = [client EXCEPT !.pc = "ready", !.user = NoIdentity,
                                      !.isAuthenticated = FALSE, !.isLoading = FALSE]
          /\ UNCHANGED <<store, req>>

\* initializeAuth after getCurrentUser: the user, or null and then
\* authService.logout(), which is not awaited, setUser(null),
\* setIsAuthenticated(false)
Client_MeAnswer ==
  /\ client.pc = "me_wait" /\ req["r1"].pc = "done"
  /\ LET q == req["r1"]
         c == Intercept(client, q.status)
     IN  IF q.status = 200
           THEN /\ client' = [client EXCEPT
                     !.userData = q.user, !.user = q.user, !.isAuthenticated = TRUE,
                     !.isLoading = FALSE, !.pc = "ready"]
                /\ UNCHANGED <<store, req>>
         ELSE IF c.pc = "init"
           THEN /\ client' = [c EXCEPT !.flow = "rejected"]
                /\ UNCHANGED <<store, req>>
         ELSE IF c.token = <<>>
           THEN /\ client' = [ClearAuthData(c) EXCEPT
                     !.user = NoIdentity, !.isAuthenticated = FALSE,
                     !.isLoading = FALSE, !.pc = "ready", !.flow = "rejected"]
                /\ UNCHANGED <<store, req>>
         ELSE /\ Start("r2", "POST /auth/logout", ClientHeader(c), NoId, NoBody,
                       MaxClientAudit)
              /\ client' = [c EXCEPT
                   !.user = NoIdentity, !.isAuthenticated = FALSE,
                   !.isLoading = FALSE, !.pc = "ready", !.bg = "logout_wait",
                   !.flow = "rejected"]

\* the logout nobody awaits settles: catch, finally clearAuthData
Client_BgLogoutDone ==
  /\ client.bg = "logout_wait" /\ req["r2"].pc = "done"
  /\ LET c == Intercept(client, req["r2"].status)
     IN  client' = IF c.pc = "init" /\ client.pc # "init" THEN c
                   ELSE [ClearAuthData(c) EXCEPT !.bg = "none"]
  /\ UNCHANGED <<store, req>>

\* the user submits the login form: useAuth.login, AuthService.login
Click_Login ==
  /\ client.pc = "ready" /\ ~client.isAuthenticated
  /\ Start("r1", "POST /auth/login", ClientHeader(client), NoId,
           LoginBody(1, "pw1"), MaxClientAudit)
  /\ client' = [client EXCEPT !.pc = "login_wait", !.isLoading = TRUE,
                              !.flow = "login"]

\* AuthService.login after its await: setToken, setUser, and then
\* getCurrentUser; or the error, which useAuth.login turns into a result
Client_LoginAnswer ==
  /\ client.pc = "login_wait" /\ req["r1"].pc = "done"
  /\ LET q == req["r1"]
         c == Intercept(client, q.status)
     IN  IF q.status = 200
           THEN /\ Start("r1", "GET /auth/me", Bearer(q.token), NoId, NoBody,
                         MaxClientAudit)
                /\ client' = [client EXCEPT !.token = q.token,
                                !.userData = LoginUser(q), !.pc = "login_me_wait"]
         ELSE /\ client' = IF c.pc = "init" THEN c
                           ELSE [c EXCEPT !.pc = "ready", !.isLoading = FALSE]
              /\ UNCHANGED <<store, req>>

\* useAuth.login after getCurrentUser: setUser(currentUser || response.user)
Client_LoginMeAnswer ==
  /\ client.pc = "login_me_wait" /\ req["r1"].pc = "done"
  /\ LET q == req["r1"]
         c == Intercept(client, q.status)
     IN  client' =
           IF c.pc = "init" THEN c
           ELSE [c EXCEPT
                   !.userData = IF q.status = 200 THEN q.user ELSE @,
                   !.user = IF q.status = 200 THEN q.user ELSE client.userData,
                   !.isAuthenticated = TRUE, !.isLoading = FALSE, !.pc = "ready"]
  /\ UNCHANGED <<store, req>>

\* the user clicks logout: useAuth.logout, AuthService.logout up to its await
Click_Logout ==
  /\ client.pc = "ready" /\ client.isAuthenticated
  /\ IF client.token # <<>>
     THEN /\ Start("r1", "POST /auth/logout", ClientHeader(client), NoId, NoBody,
                   MaxClientAudit)
          /\ client' = [client EXCEPT !.pc = "logout_wait", !.flow = "logout"]
     ELSE /\ client' = [ClearAuthData(client) EXCEPT
                          !.user = NoIdentity, !.isAuthenticated = FALSE,
                          !.flow = "logout"]
          /\ UNCHANGED <<store, req>>

\* AuthService.logout after its await: catch, finally clearAuthData; then
\* useAuth.logout's finally: setUser(null), setIsAuthenticated(false)
Client_LogoutAnswer ==
  /\ client.pc = "logout_wait" /\ req["r1"].pc = "done"
  /\ LET c == Intercept(client, req["r1"].status)
     IN  client' = IF c.pc = "init" THEN c
                   ELSE [ClearAuthData(c) EXCEPT
                           !.user = NoIdentity, !.isAuthenticated = FALSE,
                           !.pc = "ready"]
  /\ UNCHANGED <<store, req>>

\* the user reloads the page: localStorage stays, everything else starts anew
Reload ==
  /\ client.pc = "ready"
  /\ client.token # <<>> =>
       Len(audit_logs) + Cardinality({q \in Slots : InFlight(q)
                                       /\ req[q].route \in AuditedRoutes}) < MaxClientAudit
  /\ client' = [Mounted(client.path) EXCEPT !.token = client.token,
                                            !.userData = client.userData]
  /\ UNCHANGED <<store, req>>

\* localStorage holds something that is not a token
CorruptStorage ==
  /\ client.pc = "ready" /\ client.token \in tokens
  /\ client' = [client EXCEPT !.token = <<W("abc")>>]
  /\ UNCHANGED <<store, req>>

\* no response arrives (network error, the 30 s timeout): status 0
ApiFails(r) ==
  /\ req[r].pc \in {"auth", "validate"}
  /\ req' = [req EXCEPT ![r] = Respond(req[r], 0, "Network error")]
  /\ UNCHANGED <<store, client>>

\* the server's steps behind the gate
HandleRoute(r) ==
  \/ Authorize(r)
  \/ CheckBody(r)
  \/ Login_Select(r)
  \/ Read_Select(r)
  \/ WriteAudit(r)

\* what runs by itself once a response is there
ClientSteps ==
  \/ Client_Init
  \/ Client_MeAnswer
  \/ Client_BgLogoutDone
  \/ Client_LoginAnswer
  \/ Client_LoginMeAnswer
  \/ Client_LogoutAnswer

\* the server's steps for the client's requests
HandleClient(r) == Authenticate(r) \/ HandleRoute(r)

ServerStep(r) == HandleClient(r) /\ UNCHANGED client

RouteStep(r) == HandleRoute(r) /\ UNCHANGED client

NextClient ==
  \/ ClientSteps
  \/ Click_Login
  \/ Click_Logout
  \/ Reload
  \/ CorruptStorage
  \/ \E r \in Slots : ApiFails(r)
  \/ \E r \in Slots : ServerStep(r)
  \/ Tick /\ UNCHANGED client

\* every response is handled and the server takes each of its steps: the
\* gate is enabled exactly while a request waits at "auth", so its weak
\* fairness is that no request waits there for ever
SpecClient ==
  /\ Init /\ [][NextClient]_vars
  /\ WF_vars(Client_Init) /\ WF_vars(Client_MeAnswer)
  /\ WF_vars(Client_BgLogoutDone) /\ WF_vars(Client_LoginAnswer)
  /\ WF_vars(Client_LoginMeAnswer) /\ WF_vars(Client_LogoutAnswer)
  /\ \A r \in Slots : []<>(req[r].pc # "auth") /\ WF_vars(RouteStep(r))

----------------------------------------------------------------------------
(* Properties *)

Ran(q, name) == \E i \in DOMAIN q.steps : q.steps[i] = name

Before(q, a, b) ==
  \E i, j \in DOMAIN q.steps : i < j /\ q.steps[i] = a /\ q.steps[j] = b

Answered(q, status, message) ==
  q.pc = "done" /\ q.status = status /\ q.message = message

Succeeded(q) == q.pc = "done" /\ q.status \in {200, 201}

\* q presents a token that /login issued and that had not expired when the
\* gate read the clock, and the token's subject is absent or inactive
OrphanToken(q) ==
  \E t \in tokens :
    /\ q.hdr = Bearer(t)
    /\ q.at < Payload(t).exp
    /\ ~(users[Payload(t).userId].exists /\ users[Payload(t).userId].isActive)

\* C1: a request with a correctly signed, unexpired token whose subject is
\* absent or inactive when the gate re-reads it is answered 403 'User account
\* not found or deactivated', gets no identity, and its chain stops there.
C1_OrphanTokenRejected ==
  \A r \in Slots :
    LET q == req[r]
    IN  Ran(q, "authenticate") /\ OrphanToken(q) =>
          /\ Answered(q, 403, "User account not found or deactivated")
          /\ q.user = NoIdentity
          /\ ~Ran(q, "role") /\ ~Ran(q, "handler")

\* an account deactivated after its token was issued presents the token
C1_Witness ==
  \E r \in Slots :
    /\ Ran(req[r], "authenticate") /\ OrphanToken(req[r])
    /\ req[r].status = 403

\* requireRole answered the request itself
DeniedByRole(q) ==
  q.steps = <<"authenticate", "role", "response">> /\ q.failedAt = None

\* C2: where a route mounts requireRole(allowedRoles), the request goes on to
\* the rest of the chain iff the attached identity's role is in allowedRoles;
\* otherwise it is answered 403 'Insufficient permissions' and the handler
\* never runs.
C2_RequireRole ==
  \A r \in Slots :
    LET q == req[r]
        allowedRoles == RouteTable(q.route).roles
    IN  Ran(q, "role") =>
          /\ (q.user.role \in allowedRoles) <=> ~DeniedByRole(q)
          /\ DeniedByRole(q) =>
               /\ Answered(q, 403, "Insufficient permissions")
               /\ ~Ran(q, "handler") /\ ~Ran(q, "mutation") /\ ~Ran(q, "audit")

\* an EDITOR on an ADMIN-only route
C2_Witness ==
  \E r \in Slots :
    /\ req[r].user.role = "EDITOR"
    /\ RouteTable(req[r].route).roles = {"ADMIN"}
    /\ Answered(req[r], 403, "Insufficient permissions")

SewadarMutations == {"POST /sewadars", "PUT /sewadars/:id", "DELETE /sewadars/:id"}

\* the audit rows written on connection r since its current request arrived
OwnRows(r) ==
  LET Mine(a) == a.slot = r
  IN  SelectSeq(SubSeq(audit_logs, req[r].base + 1, Len(audit_logs)), Mine)

Affected(q) == IF q.route = "POST /sewadars" THEN q.newId ELSE q.id

\* C3: a successful create, update or delete of a sewadar has written exactly
\* one audit row, whose actor is the userId of the identity the gate attached
\* and whose entity id is the id of the affected sewadar; createdBy of a
\* created sewadar is that userId too, whatever createdBy the body carried.
C3_OneAuditRowPerMutation ==
  \A r \in Slots :
    LET q == req[r]
    IN  q.route \in SewadarMutations /\ Succeeded(q) =>
          /\ Len(OwnRows(r)) = 1
          /\ OwnRows(r)[1].userId = q.user.userId
          /\ OwnRows(r)[1].entity = "SEWADAR"
          /\ OwnRows(r)[1].entityId = Affected(q)
          /\ Affected(q) \in SewadarIds
          /\ q.route = "POST /sewadars" =>
               sewadars[q.newId].createdBy = q.user.userId

\* a create whose body named somebody else as createdBy succeeded
C3_Witness ==
  \E r \in Slots :
    /\ req[r].route = "POST /sewadars" /\ Succeeded(req[r])
    /\ "createdBy" \in req[r].raw.keys
    /\ req[r].raw.createdBy # req[r].user.userId
    /\ Len(OwnRows(r)) = 1

\* the roles the permission matrix allows on a route
PermissionMatrix(route) ==
  IF route \in {"POST /sewadars", "PUT /sewadars/:id", "DELETE /sewadars/:id",
                "GET /sewadars/export"}
    THEN {"ADMIN", "EDITOR"}
  ELSE IF route \in {"GET /users", "GET /users/:id", "PUT /users/:id",
                     "DELETE /users/:id", "POST /users/:id/reset-password",
                     "POST /auth/register", "GET /audit-logs",
                     "GET /audit-logs/stats"}
    THEN {"ADMIN"}
  ELSE Roles

\* the routes that mount both gates and change a table
GatedMutations ==
  {"POST /sewadars", "PUT /sewadars/:id", "DELETE /sewadars/:id",
   "PUT /users/:id", "DELETE /users/:id", "POST /users/:id/reset-password"}

\* connection r takes the step called name
Takes(r, name) == Ran(req'[r], name) /\ ~Ran(req[r], name)

\* C4: in one request to a protected mutating route the order is
\* authenticate, role check, mutation, audit write, response: a table changes
\* only in a mutation step, an audit row is appended only in an audit step,
\* the mutation step comes after both gates passed and before the audit step,
\* and the audit step comes after the mutation and before the response.
C4_StepOrder ==
  [][ /\ sewadars' # sewadars \/ users' # users =>
           \E r \in Slots : Takes(r, "mutation")
      /\ audit_logs' # audit_logs => \E r \in Slots : Takes(r, "audit")
      /\ \A r \in Slots :
           req[r].route \in GatedMutations =>
             /\ Takes(r, "mutation") =>
                  /\ Before(req[r], "authenticate", "role")
                  /\ req[r].user.userId # NoId
                  /\ req[r].user.role \in PermissionMatrix(req[r].route)
                  /\ ~Ran(req[r], "audit") /\ ~Ran(req[r], "response")
             /\ Takes(r, "audit") =>
                  /\ Ran(req[r], "mutation") /\ ~Ran(req[r], "response")
             /\ Takes(r, "response") /\ Succeeded(req'[r]) =>
                  /\ Before(req'[r], "mutation", "audit")
                  /\ Before(req'[r], "audit", "response")
    ]_vars

\* an update of a sewadar went through the five steps in order
C4_Witness ==
  \E r \in Slots :
    /\ req[r].route = "PUT /sewadars/:id" /\ Succeeded(req[r])
    /\ req[r].steps =
         <<"authenticate", "role", "handler", "mutation", "audit", "response">>

\* the header is missing, is not 'Bearer', a space, and a token, or has an
\* empty token
MalformedHeader(h) ==
  LET parts == Split(h.text, " ")
  IN  \/ ~h.present
      \/ Len(parts) # 2
      \/ ~(Len(parts[1]) = 1 /\ IsChar(parts[1][1], "Bearer"))
      \/ parts[2] = <<>>

\* C5: a request whose Authorization header is missing, is not exactly two
\* space-separated parts the first of which is 'Bearer', or has an empty
\* token, is answered 401, and jwt.verify is never called for it.
C5_MalformedHeader401 ==
  \A r \in Slots :
    LET q == req[r]
    IN  Ran(q, "authenticate") /\ MalformedHeader(q.hdr) =>
          /\ q.pc = "done" /\ q.status = 401
          /\ ~q.verified
          /\ q.user = NoIdentity

\* 'Bearer', a token, and a third part
C5_Witness ==
  \E r \in Slots :
    LET parts == Split(req[r].hdr.text, " ")
    IN  /\ Ran(req[r], "authenticate") /\ req[r].hdr.present
        /\ Len(parts) = 3 /\ IsChar(parts[1][1], "Bearer") /\ parts[2] # <<>>
        /\ req[r].status = 401 /\ ~req[r].verified

\* the token of a well-formed header
Presented(q) == Split(q.hdr.text, " ")[2]

\* header.payload.signature, each segment the encoding of what it should be
StructurallyValid(tok) ==
  /\ Len(tok) = 5
  /\ IsChar(tok[1], JwtHeaderText) /\ IsChar(tok[2], ".") /\ IsChar(tok[4], ".")
  /\ DOMAIN tok[3] = {"pay"} /\ DOMAIN tok[5] = {"sig"}

SignatureValid(tok) ==
  tok[5].sig.key = JWT_SECRET /\ tok[5].sig.over = tok[3].pay

\* C6: for every token string that fails verification, an expired token or
\* one with an invalid signature is answered 403 'Invalid or expired token',
\* and one that is not a structurally valid token is answered 401.
C6_StatusByCause ==
  \A r \in Slots :
    LET q == req[r]
        tok == Presented(q)
    IN  Ran(q, "authenticate") /\ ~MalformedHeader(q.hdr) =>
          /\ StructurallyValid(tok)
               /\ (~SignatureValid(tok) \/ q.at >= tok[3].pay.exp) =>
                    Answered(q, 403, "Invalid or expired token")
          /\ ~StructurallyValid(tok) => q.pc = "done" /\ q.status = 401

RoleDenied(q) ==
  /\ q.pc = "done" /\ q.status = 403
  /\ q.message \in {"Insufficient permissions",
                    "Only administrators can register new users"}

\* the handler has reached its queries, or has answered with success
Operates(q) ==
  \/ q.pc \in {"q1", "q2", "q3", "audit", "fetch"}
  \/ Ran(q, "mutation") \/ Ran(q, "audit")
  \/ Succeeded(q)

AuditFailed(q) == q.pc = "done" /\ q.failedAt = "audit" /\ Ran(q, "mutation")

\* what the request's mutation did is in the tables
MutationApplied(q) ==
  CASE q.route = "POST /sewadars" ->
         sewadars[q.newId].exists /\ sewadars[q.newId].name = q.body.firstName
    [] q.route = "PUT /sewadars/:id" -> sewadars[q.id].name = q.body.firstName
    [] q.route = "DELETE /sewadars/:id" -> ~sewadars[q.id].exists
    [] q.route = "PUT /users/:id" -> users[q.id].name = q.body.firstName
    [] q.route = "DELETE /users/:id" -> ~users[q.id].exists
    [] q.route = "POST /users/:id/reset-password" ->
         users[q.id].password = Hash(q.body.newPassword)
    [] q.route = "POST /auth/register" -> users[q.newId].exists
    [] OTHER -> TRUE

ErrorLogged(q) ==
  \E l \in q.log : l.level = "error" /\ l.msg = "Error occurred:"

\* C8: when the audit insert fails after the mutation, the mutation stays in
\* the tables and the failure is in the server's log.
C8_AuditFailureKeepsMutation ==
  \A r \in Slots :
    AuditFailed(req[r]) => MutationApplied(req[r]) /\ ErrorLogged(req[r])

\* a delete of a sewadar whose audit insert was rejected
C8_Witness ==
  \E r \in Slots :
    /\ AuditFailed(req[r]) /\ req[r].route = "DELETE /sewadars/:id"
    /\ ~sewadars[req[r].id].exists /\ ErrorLogged(req[r])

\* C9: a request whose mutation was applied and whose audit insert failed is
\* still answered with the success response.
C9_AuditFailureInvisible ==
  \A r \in Slots : AuditFailed(req[r]) => Succeeded(req[r])

\* C10: every sewadar's createdBy refers to an existing user, whatever the
\* interleaving of user deletions, sewadar creations and sewadar deletions.
C10_CreatorExists ==
  \A s \in SewadarIds :
    sewadars[s].exists =>
      sewadars[s].createdBy \in UserIds /\ users[sewadars[s].createdBy].exists

\* the deletion of a user who created a sewadar still there has been refused
C10_Witness ==
  \E r \in Slots, s \in SewadarIds :
    /\ req[r].route = "DELETE /users/:id" /\ req[r].pc = "done"
    /\ req[r].status = 400
    /\ sewadars[s].exists /\ sewadars[s].createdBy = req[r].id

\* authenticateToken answered the request itself
GateRejected(q) ==
  q.steps = <<"authenticate", "response">> /\ q.failedAt = None

\* the gate has just run for q and none of q's own steps followed it
FreshFromGate(q) == q.pc = "role" \/ GateRejected(q)

\* q presents the issued token t, unexpired when the gate read the clock,
\* and t's subject is an active user
LiveToken(q, t) ==
  /\ t \in tokens /\ q.hdr = Bearer(t)
  /\ q.at < Payload(t).exp
  /\ users[Payload(t).userId].exists /\ users[Payload(t).userId].isActive

\* C11: for a valid token of an active subject the gate succeeds and the role
\* it attaches is the role the store holds for the subject now, not the role
\* claim of the token.
C11_StoredRoleAttached ==
  \A r \in Slots : \A t \in tokens :
    LET q == req[r]
    IN  FreshFromGate(q) /\ LiveToken(q, t) =>
          /\ q.pc = "role"
          /\ q.user.userId = Payload(t).userId
          /\ q.user.role = users[Payload(t).userId].role

\* C12: the identity the gate attaches has the token's userId, email and
\* role and the store's name, and where a route mounts requireRole the
\* request is refused exactly when the token's role is outside the route's
\* list, whatever role the store holds by then.
C12_ClaimsDecideRole ==
  \A r \in Slots : \A t \in tokens :
    LET q == req[r]
    IN  Ran(q, "authenticate") /\ q.hdr = Bearer(t) /\ q.user.userId # NoId =>
          /\ q.user.userId = Payload(t).userId
          /\ q.user.email = Payload(t).email
          /\ q.user.role = Payload(t).role
          /\ q.pc = "role" => q.user.name = users[Payload(t).userId].name
          /\ Ran(q, "role") =>
               (DeniedByRole(q) <=> Payload(t).role \notin PermissionMatrix(q.route))

\* a token issued to an editor still exports after the store made its
\* subject a VIEWER
C12_Witness ==
  \E r \in Slots : \E t \in tokens :
    /\ req[r].hdr = Bearer(t) /\ req[r].route = "GET /sewadars/export"
    /\ Succeeded(req[r])
    /\ Payload(t).role \in {"ADMIN", "EDITOR"}
    /\ users[Payload(t).userId].role = "VIEWER"

\* a LOGOUT row of t's subject was in the log when q arrived
LoggedOutBefore(q, t) ==
  \E i \in 1..q.base :
    audit_logs[i].action = "LOGOUT" /\ audit_logs[i].userId = Payload(t).userId

\* C13: logout does not revoke the token: a token presented again after its
\* subject's successful logout, unexpired and with the subject still active,
\* passes the gate; and the steps of a logout request change nothing in the
\* store but the audit log, to which they append one LOGOUT row.
C13_LogoutKeepsToken ==
  /\ [](\A r \in Slots : \A t \in tokens :
          LET q == req[r]
          IN  Ran(q, "authenticate") /\ LiveToken(q, t) /\ LoggedOutBefore(q, t) =>
                /\ q.user.userId = Payload(t).userId
                /\ ~GateRejected(q))
  /\ [][\A r \in Slots :
          req[r].route = "POST /auth/logout" /\ InFlight(r) =>
            /\ users' = users /\ sewadars' = sewadars /\ tokens' = tokens
            /\ \/ audit_logs' = audit_logs
               \/ /\ Len(audit_logs') = Len(audit_logs) + 1
                  /\ SubSeq(audit_logs', 1, Len(audit_logs)) = audit_logs
                  /\ audit_logs'[Len(audit_logs')].action = "LOGOUT"
      ]_vars

\* a token is used with success after its subject logged out
C13_Witness ==
  \E r \in Slots : \E t \in tokens :
    /\ LiveToken(req[r], t) /\ LoggedOutBefore(req[r], t)
    /\ req[r].route = "GET /sewadars" /\ Succeeded(req[r])

\* C14: a successful login has written exactly one audit row, a LOGIN row
\* whose actor is the id of the users row that matched, and a successful
\* logout exactly one, a LOGOUT row whose actor is the userId of the token.
C14_OneRowPerLoginLogout ==
  \A r \in Slots :
    LET q == req[r]
    IN  /\ q.route = "POST /auth/login" /\ Succeeded(q) =>
             /\ Len(OwnRows(r)) = 1
             /\ OwnRows(r)[1].action = "LOGIN"
             /\ OwnRows(r)[1].userId = q.found
             /\ q.found \in UserIds /\ users[q.found].email = q.raw.email
             /\ Payload(q.token).userId = q.found
        /\ q.route = "POST /auth/logout" /\ Succeeded(q) =>
             /\ Len(OwnRows(r)) = 1
             /\ OwnRows(r)[1].action = "LOGOUT"
             /\ \E t \in tokens :
                  q.hdr = Bearer(t) /\ OwnRows(r)[1].userId = Payload(t).userId

\* a logout has succeeded
C14_Witness ==
  \E r \in Slots :
    /\ req[r].route = "POST /auth/logout" /\ Succeeded(req[r])
    /\ Len(OwnRows(r)) = 1 /\ OwnRows(r)[1].userId = req[r].user.userId

\* C15: the audit log is append-only: no step removes or changes a row that
\* is in it.
C15_AppendOnly ==
  [][ /\ Len(audit_logs') >= Len(audit_logs)
      /\ SubSeq(audit_logs', 1, Len(audit_logs)) = audit_logs ]_vars

\* a user has been deleted, and the rows written before are in the log
C15_Witness ==
  \E r \in Slots :
    /\ req[r].route = "DELETE /users/:id" /\ Succeeded(req[r])
    /\ ~users[req[r].id].exists
    /\ Len(audit_logs) >= 2 /\ audit_logs[Len(audit_logs)].action = "DELETE_USER"

\* no active account has the email of the login q
UnknownOrInactive(q) ==
  ~\E u \in UserIds :
     users[u].exists /\ users[u].isActive /\ users[u].email = q.raw.email

\* an active account has the email, and the password is not its password
WrongPassword(q) ==
  \E u \in UserIds :
    /\ users[u].exists /\ users[u].isActive /\ users[u].email = q.raw.email
    /\ users[u].password # Hash(q.raw.password)

\* C16: a login with an unknown or inactive email and a login with a known
\* active email and a wrong password get the same response, status 401 with
\* message 'Invalid email or password'; neither issues a token nor writes a
\* row.
C16_LoginFailuresAlike ==
  \A r \in Slots :
    LET q == req[r]
    IN  q.route = "POST /auth/login" /\ q.pc = "done"
          /\ (UnknownOrInactive(q) \/ WrongPassword(q)) =>
            /\ Answered(q, 401, "Invalid email or password")
            /\ q.token = <<>> /\ Len(OwnRows(r)) = 0

\* a deactivated account logs in with its own password
C16_Witness ==
  \E r \in Slots : \E u \in UserIds :
    /\ req[r].route = "POST /auth/login" /\ req[r].status = 401
    /\ users[u].exists /\ ~users[u].isActive
    /\ users[u].email = req[r].raw.email
    /\ users[u].password = Hash(req[r].raw.password)

\* C17: the token a successful login issues carries the userId, email and
\* role of the users row that matched; and such a token, presented on a
\* can-edit route while the row still holds that role, ADMIN or EDITOR, and is
\* active, passes authenticateToken and requireRole.
C17_LoginTokenOpensEditRoutes ==
  \A r \in Slots :
    LET q == req[r]
    IN  /\ q.route = "POST /auth/login" /\ Succeeded(q) =>
             /\ q.token \in tokens
             /\ Payload(q.token).userId = q.found
             /\ Payload(q.token).email = users[q.found].email
             /\ Payload(q.token).role = users[q.found].role
        /\ \A t \in tokens :
             /\ PermissionMatrix(q.route) = {"ADMIN", "EDITOR"}
             /\ Ran(q, "authenticate") /\ LiveToken(q, t)
             /\ users[Payload(t).userId].role = Payload(t).role
             /\ Payload(t).role \in {"ADMIN", "EDITOR"}
             => /\ ~GateRejected(q) /\ ~DeniedByRole(q)
                /\ q.user.userId = Payload(t).userId
                /\ q.pc = "done" => Ran(q, "handler") \/ q.failedAt = "validate"

\* an editor's token has exported the sewadars
C17_Witness ==
  \E r \in Slots : \E t \in tokens :
    /\ req[r].route = "GET /sewadars/export" /\ req[r].hdr = Bearer(t)
    /\ Succeeded(req[r])
    /\ Payload(t).role = "EDITOR" /\ users[Payload(t).userId].role = "EDITOR"

\* the request was answered 401 or 403 by the gate or by a role check
Rejected(q) == q.status \in {401, 403} /\ q.route # "POST /auth/login"

\* C18: a request answered 401 or 403 by authenticateToken or by a role check
\* is over and has changed nothing: it ran no mutation and no audit write
\* and wrote no row, the step that rejects it leaves users, sewadars and the
\* audit log as they were, and its record changes again only when the next
\* request arrives on the connection.
C18_RejectionHasNoEffect ==
  /\ [](\A r \in Slots :
          Rejected(req[r]) =>
            /\ req[r].pc = "done"
            /\ ~Ran(req[r], "mutation") /\ ~Ran(req[r], "audit")
            /\ Len(OwnRows(r)) = 0)
  /\ [][\A r \in Slots :
          /\ Rejected(req'[r]) /\ ~Rejected(req[r]) =>
               users' = users /\ sewadars' = sewadars /\ audit_logs' = audit_logs
          /\ Rejected(req[r]) /\ req'[r] # req[r] =>
               req'[r].steps = <<>> /\ req'[r].status = 0
      ]_vars

\* a registration by somebody who is not an ADMIN was refused, and no
\* account has the email
C18_Witness ==
  \E r \in Slots :
    /\ req[r].route = "POST /auth/register"
    /\ Answered(req[r], 403, "Only administrators can register new users")
    /\ ~\E u \in UserIds : users[u].exists /\ users[u].email = req[r].raw.email

\* the request is a registration or a profile update that ended in an error
LostOnEmail(q) ==
  /\ q.route \in {"POST /auth/register", "PUT /auth/profile"}
  /\ q.pc = "done" /\ q.status >= 400

\* C19: no two users share an email, whatever the interleaving of
\* registrations and profile updates; a request that ends in an error has
\* created no user and written no row, and the step that ends it leaves the
\* users table as it was.
C19_EmailsDistinct ==
  /\ [](/\ \A u, v \in UserIds :
             users[u].exists /\ users[v].exists /\ u # v =>
               users[u].email # users[v].email
        /\ \A r \in Slots :
             LostOnEmail(req[r]) =>
               /\ ~Ran(req[r], "mutation") /\ req[r].newId = NoId
               /\ Len(OwnRows(r)) = 0)
  /\ [][\A r \in Slots :
          LostOnEmail(req'[r]) /\ ~LostOnEmail(req[r]) => users' = users]_vars

\* two registrations claimed the same new email at once: one created the
\* account, the other was refused by the store at its INSERT
C19_Witness ==
  \E r1, r2 \in Slots :
    /\ r1 # r2
    /\ req[r1].route = "POST /auth/register" /\ Succeeded(req[r1])
    /\ req[r2].route = "POST /auth/register"
    /\ req[r2].raw.email = req[r1].raw.email
    /\ req[r2].pc = "done" /\ req[r2].status = 409 /\ req[r2].failedAt = "q2"
    /\ Cardinality({u \in UserIds : users[u].exists
                                     /\ users[u].email = req[r1].raw.email}) = 1

\* q presents, in a well-formed header, a token string with a payload whose
\* userId names an account that the store holds as inactive
InactiveSubject(q) ==
  /\ ~MalformedHeader(q.hdr)
  /\ \E i \in DOMAIN Presented(q) :
       /\ DOMAIN Presented(q)[i] = {"pay"}
       /\ LET u == Presented(q)[i].pay.userId
          IN  u \in UserIds /\ users[u].exists /\ ~users[u].isActive

\* C20 as stated: every token of an inactive subject is denied with 403,
\* whether it is valid, expired, badly signed or malformed.
C20_Inactive403 ==
  \A r \in Slots :
    LET q == req[r]
    IN  Ran(q, "authenticate") /\ InactiveSubject(q) =>
          q.pc = "done" /\ q.status = 403

\* C20: a token of an inactive subject is always denied and gets no identity:
\* with 403 when the token string has exactly three dot-separated segments
\* ('User account not found or deactivated' when it verifies, 'Invalid or
\* expired token' when it does not), and with 401 'Invalid token format' when
\* it has any other number of segments.
C20_InactiveDenied ==
  \A r \in Slots :
    LET q == req[r]
        tok == Presented(q)
        verifies == /\ StructurallyValid(tok) /\ SignatureValid(tok)
                    /\ q.at < tok[3].pay.exp
    IN  Ran(q, "authenticate") /\ InactiveSubject(q) =>
          /\ q.pc = "done" /\ q.user = NoIdentity
          /\ ~Ran(q, "role") /\ ~Ran(q, "handler")
          /\ IF Len(Split(tok, ".")) # 3
               THEN Answered(q, 401, "Invalid token format")
             ELSE IF verifies
               THEN Answered(q, 403, "User account not found or deactivated")
             ELSE Answered(q, 403, "Invalid or expired token")

\* an inactive account's token with a fourth segment appended is answered 401
C20_Witness ==
  \E r \in Slots :
    /\ Ran(req[r], "authenticate") /\ InactiveSubject(req[r])
    /\ Len(Split(Presented(req[r]), ".")) > 3
    /\ Answered(req[r], 401, "Invalid token format")

\* the header is there and is not 'Bearer', a space, and one more part
WrongShape(h) ==
  LET parts == Split(h.text, " ")
  IN  /\ h.present
      /\ ~(Len(parts) = 2 /\ Len(parts[1]) = 1 /\ IsChar(parts[1][1], "Bearer"))

FormatMessage == "Invalid authorization header format. Use: Bearer <token>"

\* C21 as stated: an absent header is answered 401 'Access token required',
\* and every header that is present but is not two space-separated parts with
\* scheme 'Bearer' is answered 401 'Invalid authorization header format'.
C21_PresentMeansFormat ==
  \A r \in Slots :
    LET q == req[r]
    IN  Ran(q, "authenticate") =>
          /\ ~q.hdr.present => Answered(q, 401, "Access token required")
          /\ WrongShape(q.hdr) => Answered(q, 401, FormatMessage)

\* C21: an absent or empty Authorization header is answered 401 'Access
\* token required', and a non-empty header that is not two space-separated
\* parts with scheme 'Bearer' is answered 401 'Invalid authorization header
\* format. Use: Bearer <token>'.
C21_HeaderMessages ==
  \A r \in Slots :
    LET q == req[r]
    IN  Ran(q, "authenticate") =>
          /\ ~q.hdr.present \/ q.hdr.text = <<>> =>
               Answered(q, 401, "Access token required")
          /\ WrongShape(q.hdr) /\ q.hdr.text # <<>> =>
               Answered(q, 401, FormatMessage)

\* an Authorization header with an empty value is answered as if absent
C21_Witness ==
  \E r \in Slots :
    /\ Ran(req[r], "authenticate")
    /\ req[r].hdr.present /\ req[r].hdr.text = <<>>
    /\ Answered(req[r], 401, "Access token required")

\* the response a client gets for the header h at time t
ResponseTo(h, t) ==
  LET g == AuthenticateToken(h, users, t)
  IN  <<g.status, g.message>>

\* q presented an issued token that had expired when the gate read the clock
ExpiredToken(q, t) ==
  /\ t \in tokens /\ q.hdr = Bearer(t)
  /\ Ran(q, "authenticate") /\ q.at >= Payload(t).exp

SelfRequest(q) ==
  /\ Ran(q, "handler")
  /\ q.user.userId # NoId /\ q.id = q.user.userId
  /\ \/ q.route = "DELETE /users/:id"
     \/ /\ q.route = "PUT /users/:id"
        /\ "isActive" \in q.raw.keys /\ ~q.raw.isActive

\* C23: DELETE /users/:id on the requester's own id and PUT /users/:id with
\* isActive = false on the requester's own id are answered 400; the request
\* never reaches its UPDATE or DELETE, writes no audit row, and the step that
\* answers it leaves the users table and the audit log as they were.
C23_NoSelfRemoval ==
  /\ [](\A r \in Slots :
          LET q == req[r]
          IN  SelfRequest(q) =>
                /\ q.pc \in {"q1", "done"}
                /\ ~Ran(q, "mutation") /\ Len(OwnRows(r)) = 0
                /\ users[q.id].exists
                /\ q.pc = "done" =>
                     Answered(q, 400,
                       IF q.route = "DELETE /users/:id"
                       THEN "Cannot delete your own account"
                       ELSE "Cannot deactivate your own account"))
  /\ [][\A r \in Slots :
          SelfRequest(req'[r]) /\ req[r].pc = "q1" /\ req'[r].pc = "done" =>
            users' = users /\ audit_logs' = audit_logs]_vars

\* an administrator asked for the deletion of their own account
C23_Witness ==
  \E r \in Slots :
    /\ SelfRequest(req[r]) /\ req[r].route = "DELETE /users/:id"
    /\ Answered(req[r], 400, "Cannot delete your own account")
    /\ users[req[r].id].exists /\ users[req[r].id].isActive

DeleteRows(s) ==
  {i \in DOMAIN audit_logs :
     audit_logs[i].action = "DELETE_SEWADAR" /\ audit_logs[i].entityId = s}

\* C25: for each sewadar id the DELETE_SEWADAR audit rows never outnumber the
\* removals of that record: an id is never given twice, so a record that is
\* stored has none and a record that is gone has at most one.
C25_DeleteRowsMatchRemovals ==
  \A s \in SewadarIds :
    Cardinality(DeleteRows(s)) <= IF sewadars[s].exists THEN 0 ELSE 1

\* C26: at least one account is stored, active and has the role ADMIN,
\* whatever user updates and user deletions have run.
C26_AdminRemains ==
  \E u \in UserIds :
    users[u].exists /\ users[u].isActive /\ users[u].role = "ADMIN"

\* C27: a request whose lookup of the subject failed inside the gate is
\* rejected, with a 401, 403 or 500 answer and no identity, and no other
\* request is left unanswered because of it.
C27_FailsClosed ==
  \A r \in Slots :
    req[r].failedAt = "auth" =>
      /\ req[r].pc = "done" /\ req[r].status \in {401, 403, 500}
      /\ req[r].user = NoIdentity
      /\ \A q \in Slots : req[q].pc # "aborted"

\* the handler of q ended in an error before its mutation and its audit row
EndedBeforeMutation(q) ==
  /\ q.pc = "done" /\ q.status >= 400
  /\ Ran(q, "handler") /\ ~Ran(q, "mutation") /\ ~Ran(q, "audit")
  /\ q.failedAt # "audit"

Contains(text, sub) ==
  \E i \in 1..(Len(text) - Len(sub) + 1) : SubSeq(text, i, i + Len(sub) - 1) = sub

\* C29: no line the server logs for a request contains the signing secret
\* or a complete bearer token that /login issued, whatever the gate decided.
C29_NoSecretsLogged ==
  \A r \in Slots : \A l \in req[r].log :
    /\ ~Contains(LoggerWrites(l), <<W(JWT_SECRET)>>)
    /\ \A t \in tokens : ~Contains(LoggerWrites(l), t)

\* nothing of the session is left in the browser
Cleared ==
  /\ client.token = <<>> /\ client.userData = NoIdentity
  /\ ~client.isAuthenticated /\ client.user = NoIdentity

\* the last thing the client did was a logout, or a start-up whose stored
\* token the server turned down
LoggedOutFlow == client.flow \in {"logout", "rejected"}

\* C30: once logout() has completed, or a start-up with a stored token the
\* server no longer accepts has come to rest, localStorage holds neither token
\* nor user data and the state is isAuthenticated = false, user = null; and a
\* logout or such a start-up always gets there, whatever the logout call
\* answers, unless the user logs in again or reloads the page first
C30_LogoutSettles ==
  /\ [](LoggedOutFlow /\ client.pc = "ready" /\ client.bg = "none" => Cleared)
  /\ (LoggedOutFlow ~> (Cleared \/ ~LoggedOutFlow))

\* a start-up whose token had expired has settled, its logout call refused
C30_Witness ==
  /\ client.flow = "rejected" /\ client.pc = "ready" /\ client.bg = "none"
  /\ Cleared
  /\ req["r2"].route = "POST /auth/logout" /\ req["r2"].pc = "done"
  /\ req["r2"].status >= 400

\* a logout has completed although no response to its call ever came
C30_WitnessNetwork ==
  /\ client.flow = "logout" /\ client.pc = "ready" /\ Cleared
  /\ req["r1"].route = "POST /auth/logout" /\ req["r1"].status = 0
  /\ req["r1"].pc = "done"

====
